---- MODULE Spec2Model ----
\* Notely frontend: the Session Store (authStore), the Note Store (noteStore)
\* and the part of the HTTP Gateway (ApiClient) they go through, as state
\* machines.  Every asynchronous store operation is split where the code
\* awaits: a Start step (the synchronous prefix up to the dispatch of the
\* request) and one completion step (the try-branch or the catch-branch that
\* runs when the awaited request settles).  Steps of different calls
\* interleave freely, as they do on the single JavaScript thread.
EXTENDS Integers, Sequences, FiniteSets, Bags, TLC

VARIABLES
    pc,               \* "boot" before the auth module is evaluated, then "ready" or "crashed"
    user,             \* AuthState.user            (Maybe User)
    token,            \* AuthState.token           (Maybe string)
    isAuthenticated,  \* AuthState.isAuthenticated
    loading,          \* AuthState.loading
    error,            \* AuthState.error           (Maybe string)
    storage,          \* localStorage: [token, user], each Maybe a stored string
    inflight,         \* Session Store calls awaiting their response
    nextId,           \* next call id of the Session Store
    last,             \* the Session Store handler step that ran last: [op, phase]
    notes,            \* NoteStore.notes         (sequence of notes)
    deletedNotes,     \* NoteStore.deletedNotes  (sequence of notes)
    currentNote,      \* NoteStore.currentNote   (Maybe note)
    noteLoading,      \* NoteStore.loading
    noteError,        \* NoteStore.error         (Maybe string)
    noteInflight,     \* Note Store requests in flight (a bag)
    noteNextId,       \* 1 + the number of Note Store calls started
    noteLast,         \* the Note Store handler step that ran last: [op, phase]
    returned,         \* the value the last Note Store step handed to its caller (Maybe note)
    srv,              \* the backend's notes: id -> [status, content]
    sinceLogout,      \* history: "none", or what has happened since the last logout
    gwErr,            \* the AxiosError the response interceptor is handed
    gwMsg,            \* the message of the Error the response interceptor throws (Maybe string)
    logoutId,         \* history: the value of nextId when logout ran last (0: never)
    synInput,         \* extractSynopsis: the markdown argument (a sequence of characters)
    synMaxLength,     \* extractSynopsis: the maxLength argument
    synOutput,        \* extractSynopsis: the string returned (Maybe)
    mdInput,          \* markdownToHtml: the markdown argument (a sequence of blocks)
    mdOutput          \* markdownToHtml: the HTML returned (Maybe a sequence of elements)

authVars == <<pc, user, token, isAuthenticated, loading, error, storage, inflight, nextId, last>>

noteVars == <<notes, deletedNotes, currentNote, noteLoading, noteError, noteInflight,
              noteNextId, noteLast, returned, srv>>

gwVars == <<gwErr, gwMsg>>

hist == <<sinceLogout, logoutId>>

utilVars == <<synInput, synMaxLength, synOutput, mdInput, mdOutput>>

-----------------------------------------------------------------------------
\* Bounds of the model.

\* number of asynchronous Session Store calls one behaviour starts
MaxCalls == 3

\* number of asynchronous Note Store calls one behaviour starts
MaxNoteCalls == 3

\* number of asynchronous calls of both stores together one behaviour of the
\* whole page starts
MaxAppCalls == 2

\* The calls of both stores together in the specification with fairness.
MaxLiveCalls == 2

-----------------------------------------------------------------------------
\* Values.  null / an absent key is the empty set, a present value x is {x}.

None == {}
Some(x) == {x}
The(m) == CHOOSE x \in m : TRUE

\* User (types/User): id is required, firstName is optional.
UserIds == {1, 2}
FirstNames == {"Ann"}
Users == [id : UserIds, firstName : {None} \cup {Some(n) : n \in FirstNames}]

\* Bearer tokens the backend issues (AuthResponse.token).
Tokens == {"t1", "t2"}

\* The text of a localStorage entry under the key 'user', by what JSON.parse
\* makes of it: the serialisation of an object, the text "null", the empty
\* string, or text that is not JSON.
JSONstringify(u) == [kind |-> "object", val |-> Some(u)]
NullText == [kind |-> "null", val |-> None]
EmptyText == [kind |-> "empty", val |-> None]
MalformedText == [kind |-> "malformed", val |-> None]

\* JSON.parse throws a SyntaxError on the empty string and on malformed text.
JSONparseThrows(s) == s.kind \in {"malformed", "empty"}
JSONparse(s) == IF s.kind = "object" THEN s.val ELSE None

\* JavaScript truthiness of a string-or-null (!!x): null and "" are falsy.
TruthyStr(m) == m # None /\ The(m) # ""
\* Truthiness of a stored 'user' text: only the empty string is falsy.
TruthyText(m) == m # None /\ The(m).kind # "empty"

EmptyStorage == [token |-> None, user |-> None]

-----------------------------------------------------------------------------
\* localStorage helpers of the Session Store.

\* setAuthData with the write of the 'user' key forgotten.
setAuthData_tokenOnly(st, u, t) == [token |-> Some(t), user |-> st.user]

setAuthData(st, u, t) == [token |-> Some(t), user |-> Some(JSONstringify(u))]

\* clearAuthData with the removal of the 'user' key forgotten.
clearAuthData_keepsUser(st) == [token |-> None, user |-> st.user]

clearAuthData(st) == [token |-> None, user |-> None]

\* getInitialState: userStr ? JSON.parse(userStr) : null
HydrateThrows(st) == TruthyText(st.user) /\ JSONparseThrows(The(st.user))

HydratedUser(st) == IF TruthyText(st.user) THEN JSONparse(The(st.user)) ELSE None

getInitialState(st) ==
    [user |-> HydratedUser(st),
     token |-> st.token,
     isAuthenticated |-> TruthyStr(st.token) /\ HydratedUser(st) # None]

\* The request interceptor never attaching the header.
Bearer_never(st) == None

\* Request interceptor of the gateway: the Authorization header of a request
\* dispatched while localStorage is st (None: no header).
Bearer(st) == IF TruthyStr(st.token) THEN st.token ELSE None

\* error.message || fallback
MessageOr(msg, fallback) == IF msg # "" THEN msg ELSE fallback

\* Messages a rejected request carries (Error.message).
Messages == {"", "Bad request"}

-----------------------------------------------------------------------------
\* Response interceptor of the gateway (api.ts), error handler.

\* What error.response.data can be: a value by its JavaScript type, its text
\* (the string itself, or what JSON.stringify makes of the value) and, for
\* an object, its message property (None: the object has none).
Body(type, text, message) == [type |-> type, text |-> text, message |-> message]
UndefinedBody == Body("undefined", "", None)
NullBody == Body("null", "null", None)
StringBodies == {Body("string", t, None) : t \in {"", "Not found"}}
NumberBodies == {Body("number", t, None) : t \in {"0", "5"}}
BooleanBodies == {Body("boolean", "true", None)}
ObjectBodies ==
    { Body("object", "{}", None),
      Body("object", "{\"error\":\"E1\"}", None),
      Body("object", "{\"message\":\"\"}", Some("")),
      Body("object", "{\"message\":\"Invalid credentials\"}", Some("Invalid credentials")) }
Bodies == {UndefinedBody, NullBody} \cup StringBodies \cup NumberBodies
              \cup BooleanBodies \cup ObjectBodies

\* typeof data
TypeOf(data) == IF data.type = "null" THEN "object" ELSE data.type

\* JavaScript truthiness of data
TruthyBody(data) ==
    CASE data.type \in {"undefined", "null"} -> FALSE
      [] data.type = "string" -> data.text # ""
      [] data.type = "number" -> data.text # "0"
      [] data.type = "boolean" -> data.text = "true"
      [] OTHER -> TRUE

TransportMessages == {"", "Network Error", "Request failed with status code 404"}
StatusTexts == {"", "Not Found"}

\* The errors the handler is given: without a response (the request never got
\* an answer), or with the response's body and status text.
AxiosErrors ==
    {[response |-> None, message |-> m] : m \in TransportMessages}
      \cup {[response |-> Some([data |-> d, statusText |-> st]), message |-> m] :
              d \in Bodies, st \in StatusTexts, m \in TransportMessages}

\* error.response?.data and error.response?.statusText
DataOf(err) == IF err.response = None THEN UndefinedBody ELSE The(err.response).data
StatusTextOf(err) == IF err.response = None THEN "" ELSE The(err.response).statusText

DefaultMessage == "Something went wrong"

\* The message of the Error the handler throws.
ErrorMessage(err) ==
    LET data == DataOf(err) IN
    IF TruthyBody(data)
    THEN IF TypeOf(data) = "object" /\ TruthyStr(data.message) THEN The(data.message)
         ELSE IF TypeOf(data) = "string" THEN data.text
         ELSE IF TypeOf(data) = "object" THEN data.text
         ELSE DefaultMessage
    ELSE IF err.message # "" THEN err.message
    ELSE IF StatusTextOf(err) # "" THEN StatusTextOf(err)
    ELSE DefaultMessage

\* The handler runs on the error it was given and throws.
RejectResponse ==
    /\ gwMsg = None
    /\ gwMsg' = Some(ErrorMessage(gwErr))
    /\ UNCHANGED <<gwErr, hist, utilVars>>
    /\ UNCHANGED <<authVars, noteVars>>

-----------------------------------------------------------------------------
\* extractSynopsis (markdown utilities).  A string is a sequence of
\* one-character strings.

\* length of the markdown argument
MaxMarkdownLen == 4

\* largest maxLength argument
MaxMaxLength == 3

\* The characters of the markdown argument: a letter, a space, a newline, a
\* markdown symbol, a list marker and the backtick (written BACKTICK).  None
\* of them opens a link or an image, which line 53 rewrites.
Backtick == "BACKTICK"
Chars == {"a", " ", "\n", "#", "-", Backtick}
Markdowns == UNION {[1..n -> Chars] : n \in 0..MaxMarkdownLen}
MaxLengths == 1..MaxMaxLength

\* \s
WhiteSpace == {" ", "\n"}
\* [#*`_~>\|]
MarkdownSymbols == {"#", "*", Backtick, "_", "~", ">", "|"}
Ellipsis == <<".", ".", ".">>

Least(S) == CHOOSE x \in S : \A y \in S : x <= y
Greatest(S) == CHOOSE x \in S : \A y \in S : x >= y
From(s, i) == SubSeq(s, i, Len(s))

\* .replace(/```[\s\S]*?```/g, '') and the same with ~~~: from the first
\* fence to the nearest fence after it, again and again.
RECURSIVE RemoveFenced(_, _)
RemoveFenced(s, f) ==
    LET fences == {i \in 1..Len(s) - 2 : s[i] = f /\ s[i + 1] = f /\ s[i + 2] = f} IN
    IF fences = {} THEN s
    ELSE LET i == Least(fences)
             closing == {j \in fences : j >= i + 3}
         IN IF closing = {} THEN s
            ELSE SubSeq(s, 1, i - 1) \o RemoveFenced(From(s, Least(closing) + 3), f)

\* .replace(/`[^`]*`/g, ''): from a backtick to the next one.
RECURSIVE RemoveInlineCode(_)
RemoveInlineCode(s) ==
    LET ticks == {i \in 1..Len(s) : s[i] = Backtick} IN
    IF Cardinality(ticks) < 2 THEN s
    ELSE LET i == Least(ticks)
             j == Least(ticks \ {i})
         IN SubSeq(s, 1, i - 1) \o RemoveInlineCode(From(s, j + 1))

\* .replace(/[#*`_~>\|]/g, '')
RemoveSymbols(s) == SelectSeq(s, LAMBDA c : c \notin MarkdownSymbols)

\* .replace(/\n\s*[-+*]\s/g, ' '): a newline, the white space after it, a list
\* marker and one white-space character become one space.
RECURSIVE ListItems(_)
ListItems(s) ==
    IF s = <<>> THEN <<>>
    ELSE LET e == Least({k \in 2..Len(s) + 1 : k = Len(s) + 1 \/ s[k] \notin WhiteSpace}) IN
         IF s[1] = "\n" /\ e + 1 <= Len(s) /\ s[e] \in {"-", "+", "*"} /\ s[e + 1] \in WhiteSpace
         THEN <<" ">> \o ListItems(From(s, e + 2))
         ELSE <<s[1]>> \o ListItems(Tail(s))

\* .replace(/\n+/g, ' ') with set = {"\n"}, .replace(/\s+/g, ' ') with set = \s
RECURSIVE Collapse(_, _)
Collapse(s, set) ==
    IF s = <<>> THEN <<>>
    ELSE IF s[1] \in set
         THEN LET e == Least({k \in 2..Len(s) + 1 : k = Len(s) + 1 \/ s[k] \notin set})
              IN <<" ">> \o Collapse(From(s, e), set)
         ELSE <<s[1]>> \o Collapse(Tail(s), set)

\* .trim()
Trim(s) ==
    LET solid == {k \in 1..Len(s) : s[k] \notin WhiteSpace} IN
    IF solid = {} THEN <<>> ELSE SubSeq(s, Least(solid), Greatest(solid))

\* plainText before the truncation (lines 49-58)
PlainText(markdown) ==
    Trim(Collapse(Collapse(ListItems(RemoveSymbols(RemoveInlineCode(
        RemoveFenced(RemoveFenced(markdown, Backtick), "~")))), {"\n"}), WhiteSpace))

\* s.lastIndexOf(c, from), positions counted from 0, -1 when there is none
LastIndexOf(s, c, from) ==
    LET hits == {i \in 0..Len(s) - 1 : i <= from /\ s[i + 1] = c} IN
    IF hits = {} THEN -1 ELSE Greatest(hits)

\* The break point put at the end of the plain text: nothing is cut.
BreakPoint_nowhere(plainText, maxLength) == Len(plainText)

\* lastSpace > maxLength * 0.8 ? lastSpace : maxLength
BreakPoint(plainText, maxLength) ==
    LET lastSpace == LastIndexOf(plainText, " ", maxLength) IN
    IF 5 * lastSpace > 4 * maxLength THEN lastSpace ELSE maxLength

extractSynopsis(markdown, maxLength) ==
    IF markdown = <<>> THEN <<>>
    ELSE LET plainText == PlainText(markdown) IN
         IF Len(plainText) > maxLength
         THEN Trim(SubSeq(plainText, 1, BreakPoint(plainText, maxLength))) \o Ellipsis
         ELSE plainText

\* A caller takes the synopsis of the markdown it holds.
ExtractSynopsis ==
    /\ synOutput = None
    /\ synOutput' = Some(extractSynopsis(synInput, synMaxLength))
    /\ UNCHANGED <<synInput, synMaxLength, mdInput, mdOutput>>
    /\ UNCHANGED <<authVars, noteVars, hist, gwVars>>

-----------------------------------------------------------------------------
\* markdownToHtml (markdown utilities).  HTML is a sequence of elements, an
\* element is [tag, attr] with attr its attribute, if it has one.  The
\* markdown argument is a sequence of blocks: a paragraph, a bold text, or an
\* HTML element written in the markdown.

\* number of blocks of the markdown argument
MaxBlocks == 2

Element(tag, attr) == [tag |-> tag, attr |-> attr]
RawTags == {"script", "style", "form", "input", "button", "iframe", "img"}
RawAttrs == {"onerror", "onload", "onclick", "onmouseover", "src"}
RawElements == {Element(t, a) : t \in RawTags, a \in {None} \cup {Some(x) : x \in RawAttrs}}
Paragraph == [kind |-> "paragraph", html |-> Element("p", None)]
Bold == [kind |-> "bold", html |-> Element("strong", None)]
Blocks == {Paragraph, Bold} \cup {[kind |-> "html", html |-> e] : e \in RawElements}
MarkdownDocs == UNION {[1..n -> Blocks] : n \in 0..MaxBlocks}

\* The options given to DOMPurify.sanitize.
ADD_TAGS == {"iframe", "table", "thead", "tbody", "tr", "th", "td", "pre", "code"}
ADD_ATTR == {"allow", "allowfullscreen", "frameborder", "scrolling", "class", "style"}
FORBID_TAGS_none == {}
FORBID_TAGS == {"script", "style", "form", "input", "button"}
FORBID_ATTR == {"onerror", "onload", "onclick", "onmouseover"}

\* marked (external library): a paragraph becomes a p element, a bold text
\* a strong element, and HTML written in the markdown is passed through.
marked(markdown) == [k \in DOMAIN markdown |-> markdown[k].html]

\* DOMPurify (external library): the tags and attributes it lets through when
\* no option is given, among those of the model; script and the event
\* handlers are not among them.
DefaultTags == {"p", "strong", "style", "form", "input", "button", "img"}
DefaultAttrs == {"src", "class", "style"}

\* DOMPurify.sanitize (external library): an element stays when its tag is
\* allowed, by default or by addTags, and not forbidden; of an element that
\* stays, the attribute stays under the same rule.
sanitize(html, addTags, addAttr, forbidTags, forbidAttr) ==
    LET TagStays(e) == e.tag \in (DefaultTags \cup addTags) \ forbidTags
        AttrStays(a) == a \in (DefaultAttrs \cup addAttr) \ forbidAttr
        Clean(e) == IF e.attr # None /\ ~AttrStays(The(e.attr))
                    THEN Element(e.tag, None)
                    ELSE e
        kept == SelectSeq(html, TagStays)
    IN [k \in DOMAIN kept |-> Clean(kept[k])]

markdownToHtml(markdown) ==
    IF markdown = <<>> THEN <<>>
    ELSE sanitize(marked(markdown), ADD_TAGS, ADD_ATTR, FORBID_TAGS, FORBID_ATTR)

\* A caller renders the markdown it holds.
MarkdownToHtml ==
    /\ mdOutput = None
    /\ mdOutput' = Some(markdownToHtml(mdInput))
    /\ UNCHANGED <<mdInput, synInput, synMaxLength, synOutput>>
    /\ UNCHANGED <<authVars, noteVars, hist, gwVars>>

-----------------------------------------------------------------------------
\* The backend (external to the repository).  Every request can fail; the
\* login and register endpoints can succeed for any request, the profile and
\* password endpoints only for a request that carries a bearer token.
ServerAccepts(r) == r.op \in {"login", "register"} \/ r.bearer # None

\* A dispatched request: the call it belongs to, the operation, and the
\* Authorization header the request interceptor gave it.
Request(op) == [id |-> nextId, op |-> op, bearer |-> Bearer(storage)]

Step(op, phase) == [op |-> op, phase |-> phase]

-----------------------------------------------------------------------------
\* Session Store: construction.

\* create(...) evaluated at module load: ...getInitialState(), loading: false,
\* error: null.  A SyntaxError of JSON.parse escapes getInitialState and the
\* module evaluation fails: no store exists.
Construct ==
    /\ pc = "boot"
    /\ IF HydrateThrows(storage)
       THEN /\ pc' = "crashed"
            /\ last' = Step("construct", "threw")
            /\ UNCHANGED <<user, token, isAuthenticated, loading, error>>
       ELSE /\ pc' = "ready"
            /\ user' = getInitialState(storage).user
            /\ token' = getInitialState(storage).token
            /\ isAuthenticated' = getInitialState(storage).isAuthenticated
            /\ loading' = FALSE
            /\ error' = None
            /\ last' = Step("construct", "done")
    /\ UNCHANGED <<storage, inflight, nextId>>
    /\ UNCHANGED <<noteVars, gwVars, utilVars>>

-----------------------------------------------------------------------------
\* Session Store: the synchronous prefix of every asynchronous operation,
\* set({ loading: true, error: null }) followed by the dispatch.
StartCall(op) ==
    /\ pc = "ready"
    /\ nextId <= MaxCalls
    /\ loading' = TRUE
    /\ error' = None
    /\ inflight' = inflight \cup {Request(op)}
    /\ nextId' = nextId + 1
    /\ last' = Step(op, "start")
    /\ UNCHANGED <<pc, user, token, isAuthenticated, storage>>
    /\ UNCHANGED <<noteVars, gwVars, utilVars>>

\* The catch-branch with the final "throw error" forgotten: the call resolves.
FailCall_swallows(r, msg, fallback) ==
    /\ r \in inflight
    /\ error' = Some(MessageOr(msg, fallback))
    /\ loading' = FALSE
    /\ inflight' = inflight \ {r}
    /\ last' = Step(r.op, "resolved")
    /\ UNCHANGED <<pc, user, token, isAuthenticated, storage, nextId>>
    /\ UNCHANGED <<noteVars, gwVars, utilVars>>

\* The catch-branch dispatching the request again instead of giving up.
FailCall_retries(r, msg, fallback) ==
    /\ r \in inflight
    /\ last' = Step(r.op, "retry")
    /\ UNCHANGED <<pc, user, token, isAuthenticated, loading, error, storage, inflight, nextId>>
    /\ UNCHANGED <<noteVars, gwVars, utilVars>>

\* The catch-branch of every asynchronous operation:
\* set({ error: error.message || fallback, loading: false }); throw error
FailCall(r, msg, fallback) ==
    /\ r \in inflight
    /\ error' = Some(MessageOr(msg, fallback))
    /\ loading' = FALSE
    /\ inflight' = inflight \ {r}
    /\ last' = Step(r.op, "rejected")
    /\ UNCHANGED <<pc, user, token, isAuthenticated, storage, nextId>>
    /\ UNCHANGED <<noteVars, gwVars, utilVars>>

\* The try-branch of login and of register with the call of setAuthData forgotten.
Authenticate_noPersist(r, u, t) ==
    /\ r \in inflight
    /\ ServerAccepts(r)
    /\ user' = Some(u)
    /\ token' = Some(t)
    /\ isAuthenticated' = TRUE
    /\ loading' = FALSE
    /\ inflight' = inflight \ {r}
    /\ last' = Step(r.op, "resolved")
    /\ UNCHANGED <<pc, error, storage, nextId>>
    /\ UNCHANGED <<noteVars, gwVars, utilVars>>

\* The try-branch of login and of register also resetting error.
Authenticate_clearsError(r, u, t) ==
    /\ r \in inflight
    /\ ServerAccepts(r)
    /\ storage' = setAuthData(storage, u, t)
    /\ user' = Some(u)
    /\ token' = Some(t)
    /\ isAuthenticated' = TRUE
    /\ loading' = FALSE
    /\ error' = None
    /\ inflight' = inflight \ {r}
    /\ last' = Step(r.op, "resolved")
    /\ UNCHANGED <<pc, nextId>>
    /\ UNCHANGED <<noteVars, gwVars, utilVars>>

\* The try-branch of login and of register after the await.
Authenticate(r, u, t) ==
    /\ r \in inflight
    /\ ServerAccepts(r)
    /\ storage' = setAuthData(storage, u, t)
    /\ user' = Some(u)
    /\ token' = Some(t)
    /\ isAuthenticated' = TRUE
    /\ loading' = FALSE
    /\ inflight' = inflight \ {r}
    /\ last' = Step(r.op, "resolved")
    /\ UNCHANGED <<pc, error, nextId>>
    /\ UNCHANGED <<noteVars, gwVars, utilVars>>

LoginStart == StartCall("login")

LoginSuccess(r, u, t) == r.op = "login" /\ Authenticate(r, u, t)

LoginFailure(r, msg) == r.op = "login" /\ FailCall(r, msg, "Login failed")

RegisterStart == StartCall("register")

RegisterSuccess(r, u, t) == r.op = "register" /\ Authenticate(r, u, t)

RegisterFailure(r, msg) == r.op = "register" /\ FailCall(r, msg, "Registration failed")

Logout ==
    /\ pc = "ready"
    /\ storage' = clearAuthData(storage)
    /\ user' = None
    /\ token' = None
    /\ isAuthenticated' = FALSE
    /\ error' = None
    /\ last' = Step("logout", "done")
    /\ UNCHANGED <<pc, loading, inflight, nextId>>
    /\ UNCHANGED <<noteVars, gwVars, utilVars>>

UpdateProfileStart == StartCall("updateProfile")

\* updateProfile's try-branch with the localStorage.setItem forgotten.
UpdateProfileSuccess_noPersist(r, u) ==
    /\ r \in inflight
    /\ r.op = "updateProfile"
    /\ ServerAccepts(r)
    /\ user' = Some(u)
    /\ loading' = FALSE
    /\ inflight' = inflight \ {r}
    /\ last' = Step(r.op, "resolved")
    /\ UNCHANGED <<pc, token, isAuthenticated, error, storage, nextId>>
    /\ UNCHANGED <<noteVars, gwVars, utilVars>>

\* try-branch of updateProfile: localStorage.setItem('user', ...); set({ user, loading: false })
UpdateProfileSuccess(r, u) ==
    /\ r \in inflight
    /\ r.op = "updateProfile"
    /\ ServerAccepts(r)
    /\ storage' = [storage EXCEPT !.user = Some(JSONstringify(u))]
    /\ user' = Some(u)
    /\ loading' = FALSE
    /\ inflight' = inflight \ {r}
    /\ last' = Step(r.op, "resolved")
    /\ UNCHANGED <<pc, token, isAuthenticated, error, nextId>>
    /\ UNCHANGED <<noteVars, gwVars, utilVars>>

UpdateProfileFailure(r, msg) ==
    r.op = "updateProfile" /\ FailCall(r, msg, "Profile update failed")

UpdatePasswordStart == StartCall("updatePassword")

\* updatePassword's try-branch written as set({ loading: false, error: null }).
UpdatePasswordSuccess_clearsError(r) ==
    /\ r \in inflight
    /\ r.op = "updatePassword"
    /\ ServerAccepts(r)
    /\ loading' = FALSE
    /\ error' = None
    /\ inflight' = inflight \ {r}
    /\ last' = Step(r.op, "resolved")
    /\ UNCHANGED <<pc, user, token, isAuthenticated, storage, nextId>>
    /\ UNCHANGED <<noteVars, gwVars, utilVars>>

\* try-branch of updatePassword: set({ loading: false })
UpdatePasswordSuccess(r) ==
    /\ r \in inflight
    /\ r.op = "updatePassword"
    /\ ServerAccepts(r)
    /\ loading' = FALSE
    /\ inflight' = inflight \ {r}
    /\ last' = Step(r.op, "resolved")
    /\ UNCHANGED <<pc, user, token, isAuthenticated, error, storage, nextId>>
    /\ UNCHANGED <<noteVars, gwVars, utilVars>>

UpdatePasswordFailure(r, msg) ==
    r.op = "updatePassword" /\ FailCall(r, msg, "Password update failed")

ClearError_resetsLoading ==
    /\ pc = "ready"
    /\ error' = None
    /\ loading' = FALSE
    /\ last' = Step("clearError", "done")
    /\ UNCHANGED <<pc, user, token, isAuthenticated, storage, inflight, nextId>>
    /\ UNCHANGED <<noteVars, gwVars, utilVars>>

ClearError ==
    /\ pc = "ready"
    /\ error' = None
    /\ last' = Step("clearError", "done")
    /\ UNCHANGED <<pc, user, token, isAuthenticated, loading, storage, inflight, nextId>>
    /\ UNCHANGED <<noteVars, gwVars, utilVars>>

-----------------------------------------------------------------------------
\* Notes.  A note is [id, content]; the backend assigns the id.
\* The ids the backend assigns.
NoteIds == {1, 2}
Contents == {"a", "b"}
NoteRec(i, c) == [id |-> i, content |-> c]

\* The backend (external to the repository): every id is unassigned, an
\* active note or a note in the trash.
SrvIds(status) == {i \in NoteIds : srv[i].status = status}
SrvNote(i) == NoteRec(i, srv[i].content)

\* A listing of the backend: the notes of the given ids, highest id first.
RECURSIVE Listing(_)
Listing(ids) ==
    IF ids = {} THEN <<>>
    ELSE LET m == CHOOSE i \in ids : \A j \in ids : j <= i
         IN <<SrvNote(m)>> \o Listing(ids \ {m})

NoteRequest(op, id, content) ==
    [op |-> op, id |-> id, content |-> content, bearer |-> Bearer(storage),
     phase |-> "sent", resp |-> <<>>]

\* The requests in flight form a bag: two calls with the same arguments are
\* two requests.
Pending == BagToSet(noteInflight)
Add(bag, r) == bag (+) SetToBag({r})
Remove(bag, r) == bag (-) SetToBag({r})

\* The backend can serve the request r as its state is now.
SrvCanServe(r) ==
    CASE r.op \in {"fetchNotes", "fetchDeletedNotes"} -> TRUE
      [] r.op = "fetchNoteById" -> srv[r.id].status # "none"
      [] r.op = "createNote" -> SrvIds("none") # {}
      [] r.op = "updateNote" -> srv[r.id].status = "active"
      [] r.op = "deleteNote" -> srv[r.id].status = "active"
      [] r.op = "restoreNote" -> srv[r.id].status = "trash"

FreshId == CHOOSE i \in SrvIds("none") : \A j \in SrvIds("none") : i <= j

\* The backend's state after it served r.
SrvAfter(r) ==
    CASE r.op = "createNote" -> [srv EXCEPT ![FreshId] = [status |-> "active", content |-> r.content]]
      [] r.op = "updateNote" -> [srv EXCEPT ![r.id].content = r.content]
      [] r.op = "deleteNote" -> [srv EXCEPT ![r.id].status = "trash"]
      [] r.op = "restoreNote" -> [srv EXCEPT ![r.id].status = "active"]
      [] OTHER -> srv

\* The payload of the backend's answer to r (a listing, or the one note).
SrvAnswer(r) ==
    CASE r.op = "fetchNotes" -> Listing(SrvIds("active"))
      [] r.op = "fetchDeletedNotes" -> Listing(SrvIds("trash"))
      [] r.op = "fetchNoteById" -> <<SrvNote(r.id)>>
      [] r.op = "createNote" -> <<NoteRec(FreshId, r.content)>>
      [] r.op = "updateNote" -> <<NoteRec(r.id, r.content)>>
      [] r.op = "deleteNote" -> <<>>
      [] r.op = "restoreNote" -> <<SrvNote(r.id)>>

\* The backend serves a request: its state changes and the answer travels back.
ServerHandle(r) ==
    /\ r \in Pending
    /\ r.phase = "sent"
    /\ SrvCanServe(r)
    /\ srv' = SrvAfter(r)
    /\ noteInflight' = Add(Remove(noteInflight, r), [r EXCEPT !.phase = "answered", !.resp = SrvAnswer(r)])
    /\ UNCHANGED <<notes, deletedNotes, currentNote, noteLoading, noteError, noteNextId, noteLast,
                   returned>>
    /\ UNCHANGED <<authVars, hist, gwVars, utilVars>>

-----------------------------------------------------------------------------
\* Note Store.

\* set({ loading: true, error: null }) followed by the dispatch.
NoteStart(op, id, content) ==
    /\ noteNextId <= MaxNoteCalls
    /\ noteLoading' = TRUE
    /\ noteError' = None
    /\ noteInflight' = Add(noteInflight, NoteRequest(op, id, content))
    /\ noteNextId' = noteNextId + 1
    /\ noteLast' = Step(op, "start")
    /\ returned' = None
    /\ UNCHANGED <<notes, deletedNotes, currentNote, srv>>
    /\ UNCHANGED <<authVars, hist, gwVars, utilVars>>

\* The catch-branch with loading left as it is.
NoteFail_keepsLoading(r, msg, fallback) ==
    /\ r \in Pending
    /\ noteError' = Some(MessageOr(msg, fallback))
    /\ noteInflight' = Remove(noteInflight, r)
    /\ noteLast' = Step(r.op, "rejected")
    /\ returned' = None
    /\ UNCHANGED <<notes, deletedNotes, currentNote, noteLoading, noteNextId, srv>>
    /\ UNCHANGED <<authVars, hist, gwVars, utilVars>>

\* The catch-branch: set({ error: error.message || fallback, loading: false }); throw error
\* The request failed on the way, was refused by the backend, or its answer was lost.
NoteFail(r, msg, fallback) ==
    /\ r \in Pending
    /\ noteError' = Some(MessageOr(msg, fallback))
    /\ noteLoading' = FALSE
    /\ noteInflight' = Remove(noteInflight, r)
    /\ noteLast' = Step(r.op, "rejected")
    /\ returned' = None
    /\ UNCHANGED <<notes, deletedNotes, currentNote, noteNextId, srv>>
    /\ UNCHANGED <<authVars, hist, gwVars, utilVars>>

\* What the try-branches share: the answer has arrived, loading: false.
NoteDone(r, op) ==
    /\ r \in Pending
    /\ r.op = op
    /\ r.phase = "answered"
    /\ noteLoading' = FALSE
    /\ noteInflight' = Remove(noteInflight, r)
    /\ noteLast' = Step(op, "resolved")
    /\ UNCHANGED <<noteError, noteNextId, srv>>
    /\ UNCHANGED <<authVars, hist, gwVars, utilVars>>

Without(seq, id) == SelectSeq(seq, LAMBDA n : n.id # id)

Replaced(seq, id, note) == [k \in 1..Len(seq) |-> IF seq[k].id = id THEN note ELSE seq[k]]

FetchNotesStart == NoteStart("fetchNotes", 0, "")

\* The try-branch of fetchNotes putting the listing in front of the entries held.
FetchNotesSuccess_merges(r) ==
    /\ NoteDone(r, "fetchNotes")
    /\ notes' = r.resp \o notes
    /\ returned' = None
    /\ UNCHANGED <<deletedNotes, currentNote>>

FetchNotesSuccess(r) ==
    /\ NoteDone(r, "fetchNotes")
    /\ notes' = r.resp
    /\ returned' = None
    /\ UNCHANGED <<deletedNotes, currentNote>>

FetchNotesFailure(r, msg) == r.op = "fetchNotes" /\ NoteFail(r, msg, "& Failed to fetch notes")

FetchDeletedNotesStart == NoteStart("fetchDeletedNotes", 0, "")

FetchDeletedNotesSuccess(r) ==
    /\ NoteDone(r, "fetchDeletedNotes")
    /\ deletedNotes' = r.resp
    /\ returned' = None
    /\ UNCHANGED <<notes, currentNote>>

FetchDeletedNotesFailure(r, msg) ==
    r.op = "fetchDeletedNotes" /\ NoteFail(r, msg, "Failed to fetch deleted notes")

FetchNoteByIdStart(id) == NoteStart("fetchNoteById", id, "")

FetchNoteByIdSuccess(r) ==
    /\ NoteDone(r, "fetchNoteById")
    /\ currentNote' = Some(r.resp[1])
    /\ returned' = None
    /\ UNCHANGED <<notes, deletedNotes>>

FetchNoteByIdFailure(r, msg) == r.op = "fetchNoteById" /\ NoteFail(r, msg, "Failed to fetch note")

CreateNoteStart(content) == NoteStart("createNote", 0, content)

\* The try-branch of createNote with the new note put last in the list.
CreateNoteSuccess_appends(r) ==
    /\ NoteDone(r, "createNote")
    /\ notes' = notes \o <<r.resp[1]>>
    /\ returned' = Some(r.resp[1])
    /\ UNCHANGED <<deletedNotes, currentNote>>

CreateNoteSuccess(r) ==
    /\ NoteDone(r, "createNote")
    /\ notes' = <<r.resp[1]>> \o notes
    /\ returned' = Some(r.resp[1])
    /\ UNCHANGED <<deletedNotes, currentNote>>

CreateNoteFailure(r, msg) == r.op = "createNote" /\ NoteFail(r, msg, "Failed to create note")

UpdateNoteStart(id, content) == NoteStart("updateNote", id, content)

\* The try-branch of updateNote with the updated note moved to the head of the list.
UpdateNoteSuccess_movesToFront(r) ==
    /\ NoteDone(r, "updateNote")
    /\ notes' = <<r.resp[1]>> \o Without(notes, r.id)
    /\ currentNote' = Some(r.resp[1])
    /\ returned' = None
    /\ UNCHANGED deletedNotes

\* The try-branch of updateNote keeping a currentNote that already holds the note.
UpdateNoteSuccess_firstWins(r) ==
    /\ NoteDone(r, "updateNote")
    /\ notes' = Replaced(notes, r.id, r.resp[1])
    /\ currentNote' = IF currentNote # None /\ The(currentNote).id = r.id
                      THEN currentNote
                      ELSE Some(r.resp[1])
    /\ returned' = None
    /\ UNCHANGED deletedNotes

UpdateNoteSuccess(r) ==
    /\ NoteDone(r, "updateNote")
    /\ notes' = Replaced(notes, r.id, r.resp[1])
    /\ currentNote' = Some(r.resp[1])
    /\ returned' = None
    /\ UNCHANGED deletedNotes

UpdateNoteFailure(r, msg) == r.op = "updateNote" /\ NoteFail(r, msg, "Failed to update note")

DeleteNoteStart(id) == NoteStart("deleteNote", id, "")

\* The try-branch of deleteNote emptying the list.
DeleteNoteSuccess_dropsAll(r) ==
    /\ NoteDone(r, "deleteNote")
    /\ notes' = <<>>
    /\ returned' = None
    /\ UNCHANGED <<deletedNotes, currentNote>>

DeleteNoteSuccess(r) ==
    /\ NoteDone(r, "deleteNote")
    /\ notes' = Without(notes, r.id)
    /\ returned' = None
    /\ UNCHANGED <<deletedNotes, currentNote>>

DeleteNoteFailure(r, msg) == r.op = "deleteNote" /\ NoteFail(r, msg, "Failed to delete note")

RestoreNoteStart(id) == NoteStart("restoreNote", id, "")

\* The try-branch of restoreNote leaving the trash list as it was.
RestoreNoteSuccess_keepsTrash(r) ==
    /\ NoteDone(r, "restoreNote")
    /\ notes' = <<r.resp[1]>> \o notes
    /\ returned' = None
    /\ UNCHANGED <<deletedNotes, currentNote>>

RestoreNoteSuccess(r) ==
    /\ NoteDone(r, "restoreNote")
    /\ deletedNotes' = Without(deletedNotes, r.id)
    /\ returned' = None
    /\ notes' = <<r.resp[1]>> \o notes
    /\ UNCHANGED currentNote

RestoreNoteFailure(r, msg) == r.op = "restoreNote" /\ NoteFail(r, msg, "Failed to restore note")

NoteClearError ==
    /\ noteError' = None
    /\ noteLast' = Step("clearError", "done")
    /\ returned' = None
    /\ UNCHANGED <<notes, deletedNotes, currentNote, noteLoading, noteInflight, noteNextId, srv>>
    /\ UNCHANGED <<authVars, hist, gwVars, utilVars>>

-----------------------------------------------------------------------------
\* Routes (App.tsx) and ProtectedRoute.  What a route renders is a function
\* of the Session Store as it is: [view, to, from].

View(view, to, from) == [view |-> view, to |-> to, from |-> from]

PublicPaths == {"/", "/login", "/register"}
ProtectedPaths == {"/notes", "/notes/:id", "/trash", "/profile"}

\* The page element of each route.
Page(path) ==
    CASE path = "/" -> "LandingPage"
      [] path = "/login" -> "LoginPage"
      [] path = "/register" -> "RegisterPage"
      [] path = "/notes" -> "NotesPage"
      [] path = "/notes/:id" -> "NoteDetailPage"
      [] path = "/trash" -> "TrashPage"
      [] path = "/profile" -> "ProfilePage"

\* ProtectedRoute without the test of loading.
ProtectedRoute_noSpinner(children, location) ==
    IF ~isAuthenticated
    THEN View("Navigate", Some("/login"), Some(location))
    ELSE View(children, None, None)

ProtectedRoute(children, location) ==
    IF loading
    THEN View("LoadingSpinner", None, None)
    ELSE IF ~isAuthenticated
         THEN View("Navigate", Some("/login"), Some(location))
         ELSE View(children, None, None)

\* <Routes>: the element of the route of this path.
Routes(path) ==
    IF path \in ProtectedPaths
    THEN ProtectedRoute(Page(path), path)
    ELSE View(Page(path), None, None)

-----------------------------------------------------------------------------
\* What localStorage can hold when the page loads.
StoredTokens == {None, Some(""), Some("t1")}
StoredUsers == {None, Some(EmptyText), Some(NullText), Some(MalformedText)}
                   \cup {Some(JSONstringify(u)) : u \in Users}

\* The auth module before it is evaluated, over localStorage st.
Boot(st) ==
    /\ pc = "boot"
    /\ storage = st
    /\ user = None
    /\ token = None
    /\ isAuthenticated = FALSE
    /\ loading = FALSE
    /\ error = None
    /\ inflight = {}
    /\ nextId = 1
    /\ last = Step("none", "done")

\* The Note Store as created, over the backend state s.
NoteBoot(s) ==
    /\ notes = <<>>
    /\ deletedNotes = <<>>
    /\ currentNote = None
    /\ noteLoading = FALSE
    /\ noteError = None
    /\ noteInflight = EmptyBag
    /\ noteNextId = 1
    /\ noteLast = Step("none", "done")
    /\ returned = None
    /\ srv = s

NoSrvNotes == [i \in NoteIds |-> [status |-> "none", content |-> "a"]]

\* The notes the backend holds when the page loads: note 1 exists, active or
\* in the trash, and the other ids are unassigned.
SrvStates == {[NoSrvNotes EXCEPT ![1].status = st] : st \in {"active", "trash"}}

\* No logout has happened.
NoLogout == sinceLogout = "none" /\ logoutId = 0

\* The markdown utilities have not been called.
UtilIdle ==
    /\ synInput = <<>>
    /\ synMaxLength = 0
    /\ synOutput = None
    /\ mdInput = <<>>
    /\ mdOutput = None

\* No logout has happened, the response interceptor has nothing to handle
\* and the markdown utilities have not been called.
Idle ==
    /\ NoLogout
    /\ gwErr = [response |-> None, message |-> ""]
    /\ gwMsg = None
    /\ UtilIdle

\* The page loads with whatever an earlier run, another tab or the user left
\* in localStorage.
Init ==
    /\ \E t \in StoredTokens, s \in StoredUsers : Boot([token |-> t, user |-> s])
    /\ NoteBoot(NoSrvNotes)
    /\ Idle

\* The page loads for the first time: localStorage is empty.
InitFresh == Boot(EmptyStorage) /\ NoteBoot(NoSrvNotes) /\ Idle

NoteInit == Boot(EmptyStorage) /\ (\E s \in SrvStates : NoteBoot(s)) /\ Idle

\* A request has failed with any of the errors; the stores are as created.
GwInit ==
    /\ Boot(EmptyStorage)
    /\ NoteBoot(NoSrvNotes)
    /\ NoLogout
    /\ UtilIdle
    /\ gwErr \in AxiosErrors
    /\ gwMsg = None

Next ==
    \/ Construct /\ UNCHANGED hist
    \/ LoginStart /\ UNCHANGED hist
    \/ \E r \in inflight, u \in Users, t \in Tokens : LoginSuccess(r, u, t) /\ UNCHANGED hist
    \/ \E r \in inflight, m \in Messages : LoginFailure(r, m) /\ UNCHANGED hist
    \/ RegisterStart /\ UNCHANGED hist
    \/ \E r \in inflight, u \in Users, t \in Tokens : RegisterSuccess(r, u, t) /\ UNCHANGED hist
    \/ \E r \in inflight, m \in Messages : RegisterFailure(r, m) /\ UNCHANGED hist
    \/ Logout /\ UNCHANGED hist
    \/ UpdateProfileStart /\ UNCHANGED hist
    \/ \E r \in inflight, u \in Users : UpdateProfileSuccess(r, u) /\ UNCHANGED hist
    \/ \E r \in inflight, m \in Messages : UpdateProfileFailure(r, m) /\ UNCHANGED hist
    \/ UpdatePasswordStart /\ UNCHANGED hist
    \/ \E r \in inflight : UpdatePasswordSuccess(r) /\ UNCHANGED hist
    \/ \E r \in inflight, m \in Messages : UpdatePasswordFailure(r, m) /\ UNCHANGED hist
    \/ ClearError /\ UNCHANGED hist

NoteNext ==
    \/ \E r \in Pending : ServerHandle(r)
    \/ FetchNotesStart
    \/ \E r \in Pending : FetchNotesSuccess(r)
    \/ \E r \in Pending, m \in Messages : FetchNotesFailure(r, m)
    \/ FetchDeletedNotesStart
    \/ \E r \in Pending : FetchDeletedNotesSuccess(r)
    \/ \E r \in Pending, m \in Messages : FetchDeletedNotesFailure(r, m)
    \/ \E i \in NoteIds : FetchNoteByIdStart(i)
    \/ \E r \in Pending : FetchNoteByIdSuccess(r)
    \/ \E r \in Pending, m \in Messages : FetchNoteByIdFailure(r, m)
    \/ \E c \in Contents : CreateNoteStart(c)
    \/ \E r \in Pending : CreateNoteSuccess(r)
    \/ \E r \in Pending, m \in Messages : CreateNoteFailure(r, m)
    \/ \E i \in NoteIds, c \in Contents : UpdateNoteStart(i, c)
    \/ \E r \in Pending : UpdateNoteSuccess(r)
    \/ \E r \in Pending, m \in Messages : UpdateNoteFailure(r, m)
    \/ \E i \in NoteIds : DeleteNoteStart(i)
    \/ \E r \in Pending : DeleteNoteSuccess(r)
    \/ \E r \in Pending, m \in Messages : DeleteNoteFailure(r, m)
    \/ \E i \in NoteIds : RestoreNoteStart(i)
    \/ \E r \in Pending : RestoreNoteSuccess(r)
    \/ \E r \in Pending, m \in Messages : RestoreNoteFailure(r, m)
    \/ NoteClearError

vars == <<authVars, noteVars, hist, gwVars, utilVars>>

\* The Session Store over any initial localStorage.
Spec == Init /\ [][Next]_vars

\* The Session Store started on an empty localStorage.
SpecFresh == InitFresh /\ [][Next]_vars

\* The Note Store and the backend's notes.
NoteSpec == NoteInit /\ [][NoteNext]_vars

\* The whole page: both stores behind the one gateway.  The history variable
\* sinceLogout follows the Session Store: "logout" from a logout until a login
\* or a register resolves, "register" once a register has resolved with no
\* login since, "none" otherwise.
AppInit == Boot(EmptyStorage) /\ (\E s \in SrvStates : NoteBoot(s)) /\ Idle

AppCanCall == (nextId - 1) + (noteNextId - 1) < MaxAppCalls

AfterRegister == IF sinceLogout = "none" THEN "none" ELSE "register"

AppNext ==
    \/ Construct /\ UNCHANGED hist
    \/ AppCanCall /\ LoginStart /\ UNCHANGED hist
    \/ \E r \in inflight, u \in Users, t \in Tokens : LoginSuccess(r, u, t) /\ sinceLogout' = "none" /\ UNCHANGED logoutId
    \/ \E r \in inflight, m \in Messages : LoginFailure(r, m) /\ UNCHANGED hist
    \/ AppCanCall /\ RegisterStart /\ UNCHANGED hist
    \/ \E r \in inflight, u \in Users, t \in Tokens :
          RegisterSuccess(r, u, t) /\ sinceLogout' = AfterRegister /\ UNCHANGED logoutId
    \/ \E r \in inflight, m \in Messages : RegisterFailure(r, m) /\ UNCHANGED hist
    \/ Logout /\ sinceLogout' = "logout" /\ UNCHANGED logoutId
    \/ AppCanCall /\ UpdateProfileStart /\ UNCHANGED hist
    \/ \E r \in inflight, u \in Users : UpdateProfileSuccess(r, u) /\ UNCHANGED hist
    \/ \E r \in inflight, m \in Messages : UpdateProfileFailure(r, m) /\ UNCHANGED hist
    \/ AppCanCall /\ UpdatePasswordStart /\ UNCHANGED hist
    \/ \E r \in inflight : UpdatePasswordSuccess(r) /\ UNCHANGED hist
    \/ \E r \in inflight, m \in Messages : UpdatePasswordFailure(r, m) /\ UNCHANGED hist
    \/ ClearError /\ UNCHANGED hist
    \/ \E r \in Pending : ServerHandle(r)
    \/ AppCanCall /\ FetchNotesStart
    \/ \E r \in Pending : FetchNotesSuccess(r)
    \/ \E r \in Pending, m \in Messages : FetchNotesFailure(r, m)
    \/ AppCanCall /\ FetchDeletedNotesStart
    \/ \E r \in Pending : FetchDeletedNotesSuccess(r)
    \/ \E r \in Pending, m \in Messages : FetchDeletedNotesFailure(r, m)
    \/ AppCanCall /\ \E i \in NoteIds : FetchNoteByIdStart(i)
    \/ \E r \in Pending : FetchNoteByIdSuccess(r)
    \/ \E r \in Pending, m \in Messages : FetchNoteByIdFailure(r, m)
    \/ AppCanCall /\ \E c \in Contents : CreateNoteStart(c)
    \/ \E r \in Pending : CreateNoteSuccess(r)
    \/ \E r \in Pending, m \in Messages : CreateNoteFailure(r, m)
    \/ AppCanCall /\ \E i \in NoteIds, c \in Contents : UpdateNoteStart(i, c)
    \/ \E r \in Pending : UpdateNoteSuccess(r)
    \/ \E r \in Pending, m \in Messages : UpdateNoteFailure(r, m)
    \/ AppCanCall /\ \E i \in NoteIds : DeleteNoteStart(i)
    \/ \E r \in Pending : DeleteNoteSuccess(r)
    \/ \E r \in Pending, m \in Messages : DeleteNoteFailure(r, m)
    \/ AppCanCall /\ \E i \in NoteIds : RestoreNoteStart(i)
    \/ \E r \in Pending : RestoreNoteSuccess(r)
    \/ \E r \in Pending, m \in Messages : RestoreNoteFailure(r, m)
    \/ NoteClearError

\* Both stores of one page, from an empty localStorage.
AppSpec == AppInit /\ [][AppNext]_vars

\* The whole page with every dispatched request eventually answered or
\* failed: each await of the handlers ends.
\* The data of the responses decides no branch of a handler: in this
\* specification every response carries the same user, token and message and
\* every note is written with the same content.
LiveUsers == {[id |-> 1, firstName |-> None]}
LiveTokens == {"t1"}
LiveMessages == {"Bad request"}
LiveContents == {"a"}

LiveCanCall == (nextId - 1) + (noteNextId - 1) < MaxLiveCalls

LiveNext ==
    \/ Construct /\ UNCHANGED hist
    \/ LiveCanCall /\ LoginStart /\ UNCHANGED hist
    \/ \E r \in inflight, u \in LiveUsers, t \in LiveTokens : LoginSuccess(r, u, t) /\ UNCHANGED hist
    \/ \E r \in inflight, m \in LiveMessages : LoginFailure(r, m) /\ UNCHANGED hist
    \/ LiveCanCall /\ RegisterStart /\ UNCHANGED hist
    \/ \E r \in inflight, u \in LiveUsers, t \in LiveTokens : RegisterSuccess(r, u, t) /\ UNCHANGED hist
    \/ \E r \in inflight, m \in LiveMessages : RegisterFailure(r, m) /\ UNCHANGED hist
    \/ Logout /\ UNCHANGED hist
    \/ LiveCanCall /\ UpdateProfileStart /\ UNCHANGED hist
    \/ \E r \in inflight, u \in LiveUsers : UpdateProfileSuccess(r, u) /\ UNCHANGED hist
    \/ \E r \in inflight, m \in LiveMessages : UpdateProfileFailure(r, m) /\ UNCHANGED hist
    \/ LiveCanCall /\ UpdatePasswordStart /\ UNCHANGED hist
    \/ \E r \in inflight : UpdatePasswordSuccess(r) /\ UNCHANGED hist
    \/ \E r \in inflight, m \in LiveMessages : UpdatePasswordFailure(r, m) /\ UNCHANGED hist
    \/ ClearError /\ UNCHANGED hist
    \/ \E r \in Pending : ServerHandle(r)
    \/ LiveCanCall /\ FetchNotesStart
    \/ \E r \in Pending : FetchNotesSuccess(r)
    \/ \E r \in Pending, m \in LiveMessages : FetchNotesFailure(r, m)
    \/ LiveCanCall /\ FetchDeletedNotesStart
    \/ \E r \in Pending : FetchDeletedNotesSuccess(r)
    \/ \E r \in Pending, m \in LiveMessages : FetchDeletedNotesFailure(r, m)
    \/ LiveCanCall /\ \E i \in NoteIds : FetchNoteByIdStart(i)
    \/ \E r \in Pending : FetchNoteByIdSuccess(r)
    \/ \E r \in Pending, m \in LiveMessages : FetchNoteByIdFailure(r, m)
    \/ LiveCanCall /\ \E c \in LiveContents : CreateNoteStart(c)
    \/ \E r \in Pending : CreateNoteSuccess(r)
    \/ \E r \in Pending, m \in LiveMessages : CreateNoteFailure(r, m)
    \/ LiveCanCall /\ \E i \in NoteIds, c \in LiveContents : UpdateNoteStart(i, c)
    \/ \E r \in Pending : UpdateNoteSuccess(r)
    \/ \E r \in Pending, m \in LiveMessages : UpdateNoteFailure(r, m)
    \/ LiveCanCall /\ \E i \in NoteIds : DeleteNoteStart(i)
    \/ \E r \in Pending : DeleteNoteSuccess(r)
    \/ \E r \in Pending, m \in LiveMessages : DeleteNoteFailure(r, m)
    \/ LiveCanCall /\ \E i \in NoteIds : RestoreNoteStart(i)
    \/ \E r \in Pending : RestoreNoteSuccess(r)
    \/ \E r \in Pending, m \in LiveMessages : RestoreNoteFailure(r, m)
    \/ NoteClearError

\* The await of a Session Store request ends: its try-branch or its
\* catch-branch runs.
Settle(r) ==
    \/ \E u \in LiveUsers, t \in LiveTokens : LoginSuccess(r, u, t) \/ RegisterSuccess(r, u, t)
    \/ \E u \in LiveUsers : UpdateProfileSuccess(r, u)
    \/ UpdatePasswordSuccess(r)
    \/ \E m \in LiveMessages :
          \/ LoginFailure(r, m) \/ RegisterFailure(r, m)
          \/ UpdateProfileFailure(r, m) \/ UpdatePasswordFailure(r, m)

\* The await of a Note Store request ends.
NoteSettle(r) ==
    \/ FetchNotesSuccess(r) \/ FetchDeletedNotesSuccess(r) \/ FetchNoteByIdSuccess(r)
    \/ CreateNoteSuccess(r) \/ UpdateNoteSuccess(r) \/ DeleteNoteSuccess(r)
    \/ RestoreNoteSuccess(r)
    \/ \E m \in LiveMessages :
          \/ FetchNotesFailure(r, m) \/ FetchDeletedNotesFailure(r, m)
          \/ FetchNoteByIdFailure(r, m) \/ CreateNoteFailure(r, m)
          \/ UpdateNoteFailure(r, m) \/ DeleteNoteFailure(r, m)
          \/ RestoreNoteFailure(r, m)

\* Every dispatched request eventually receives a response or a transport
\* failure.
Answered ==
    /\ WF_vars(\E r \in inflight : Settle(r) /\ UNCHANGED hist)
    /\ WF_vars(\E r \in Pending : NoteSettle(r))

LiveSpec == AppInit /\ [][LiveNext]_vars /\ Answered

\* The Session Store with its logouts remembered.  logoutId is the number the
\* next call would get when logout last ran: a request with a smaller id was
\* in flight (or over) at that logout.  Here sinceLogout is "logout" from a
\* logout until a login or a register initiated after it resolves.
AfterLogout(r) == IF r.id >= logoutId THEN "none" ELSE sinceLogout

LogoutNext ==
    \/ Construct /\ UNCHANGED hist
    \/ LoginStart /\ UNCHANGED hist
    \/ \E r \in inflight, u \in Users, t \in Tokens :
          LoginSuccess(r, u, t) /\ sinceLogout' = AfterLogout(r) /\ UNCHANGED logoutId
    \/ \E r \in inflight, m \in Messages : LoginFailure(r, m) /\ UNCHANGED hist
    \/ RegisterStart /\ UNCHANGED hist
    \/ \E r \in inflight, u \in Users, t \in Tokens :
          RegisterSuccess(r, u, t) /\ sinceLogout' = AfterLogout(r) /\ UNCHANGED logoutId
    \/ \E r \in inflight, m \in Messages : RegisterFailure(r, m) /\ UNCHANGED hist
    \/ Logout /\ sinceLogout' = "logout" /\ logoutId' = nextId
    \/ UpdateProfileStart /\ UNCHANGED hist
    \/ \E r \in inflight, u \in Users : UpdateProfileSuccess(r, u) /\ UNCHANGED hist
    \/ \E r \in inflight, m \in Messages : UpdateProfileFailure(r, m) /\ UNCHANGED hist
    \/ UpdatePasswordStart /\ UNCHANGED hist
    \/ \E r \in inflight : UpdatePasswordSuccess(r) /\ UNCHANGED hist
    \/ \E r \in inflight, m \in Messages : UpdatePasswordFailure(r, m) /\ UNCHANGED hist
    \/ ClearError /\ UNCHANGED hist

\* One page from an empty localStorage, logouts remembered.
LogoutSpec == InitFresh /\ [][LogoutNext]_vars

\* extractSynopsis is about to be called with any markdown and any maxLength.
SynInit ==
    /\ Boot(EmptyStorage)
    /\ NoteBoot(NoSrvNotes)
    /\ NoLogout
    /\ gwErr = [response |-> None, message |-> ""]
    /\ gwMsg = None
    /\ synInput \in Markdowns
    /\ synMaxLength \in MaxLengths
    /\ synOutput = None
    /\ mdInput = <<>>
    /\ mdOutput = None

SynNext == ExtractSynopsis

\* extractSynopsis over every markdown and maxLength of the bounds.
SynSpec == SynInit /\ [][SynNext]_vars

\* markdownToHtml is about to be called with any markdown.
MdInit ==
    /\ Boot(EmptyStorage)
    /\ NoteBoot(NoSrvNotes)
    /\ NoLogout
    /\ gwErr = [response |-> None, message |-> ""]
    /\ gwMsg = None
    /\ synInput = <<>>
    /\ synMaxLength = 0
    /\ synOutput = None
    /\ mdInput \in MarkdownDocs
    /\ mdOutput = None

MdNext == MarkdownToHtml

\* markdownToHtml over every markdown of the bounds.
MdSpec == MdInit /\ [][MdNext]_vars

GwNext == RejectResponse

\* The response interceptor's error handler over every error it can be given.
GwSpec == GwInit /\ [][GwNext]_vars

-----------------------------------------------------------------------------
\* Claims about the Session Store.

Present(m) == m # None
NonEmpty(m) == m # None /\ The(m) # ""
Did(op, phase) == last = Step(op, phase)

\* C1: in every state of the Session Store, user and token are both present
\* or both absent (checked from an empty localStorage).
C1_UserAndTokenTogether == pc = "ready" => (Present(user) <=> Present(token))

\* C2: in every state of the Session Store, isAuthenticated is true exactly
\* when user and token are both present (non-null, the token non-empty).
C2_IsAuthenticatedIffBoth == pc = "ready" => (isAuthenticated <=> (Present(user) /\ NonEmpty(token)))

\* C4 as stated: when login or register has just resolved, isAuthenticated is
\* true, user and token are non-empty, error is null, loading is false and
\* user and token are in localStorage.
C4_ResolvedLoginAsStated ==
    (Did("login", "resolved") \/ Did("register", "resolved")) =>
        /\ isAuthenticated
        /\ Present(user)
        /\ NonEmpty(token)
        /\ error = None
        /\ loading = FALSE
        /\ storage = [token |-> token, user |-> Some(JSONstringify(The(user)))]

C4_Step ==
    /\ (LoginStart \/ RegisterStart) => error' = None
    /\ \A r \in inflight, u \in Users, t \in Tokens :
        (LoginSuccess(r, u, t) \/ RegisterSuccess(r, u, t)) =>
            /\ isAuthenticated'
            /\ user' = Some(u) /\ token' = Some(t) /\ NonEmpty(token')
            /\ loading' = FALSE
            /\ storage' = [token |-> Some(t), user |-> Some(JSONstringify(u))]
            /\ JSONparse(The(storage'.user)) = user'
            /\ error' = error
            /\ last'.phase = "resolved"

\* C4 (amended): login and register clear error when they start; when one
\* resolves, that step makes isAuthenticated true, user and token the (non-empty)
\* ones of the response, loading false, writes that user and token to
\* localStorage, and leaves error as it is (null unless another operation
\* failed in between).
C4_ResolvedLogin == [][C4_Step]_vars

C4_Witness == Did("login", "resolved") /\ isAuthenticated /\ error = None /\ inflight # {}

\* C5 as stated: when a login has just failed, isAuthenticated is false, error
\* holds a non-empty message and loading is false.
C5_FailedLoginAsStated ==
    Did("login", "rejected") => (~isAuthenticated /\ NonEmpty(error) /\ loading = FALSE)

C5_Step ==
    \A r \in inflight, m \in Messages :
        LoginFailure(r, m) =>
            /\ UNCHANGED <<user, token, isAuthenticated, storage>>
            /\ NonEmpty(error')
            /\ loading' = FALSE
            /\ last' = Step("login", "rejected")
            /\ r \notin inflight'

\* C5 (amended): a failing login leaves isAuthenticated, user, token and
\* localStorage as they were (an Anonymous session stays Anonymous), records a
\* non-empty error message, sets loading false and rejects to the caller.
C5_FailedLogin == [][C5_Step]_vars

C5_Witness == Did("login", "rejected") /\ ~isAuthenticated /\ error = Some("Login failed")

\* C6: logout can run in every state of the store, and right after it user and
\* token are absent, isAuthenticated is false and both localStorage keys are
\* removed.
C6_Logout ==
    /\ pc = "ready" => ENABLED Logout
    /\ Did("logout", "done") =>
        (user = None /\ token = None /\ ~isAuthenticated /\ storage = EmptyStorage)

C6_Witness == Did("logout", "done") /\ inflight # {} /\ loading

\* The persisted token or the persisted user is absent, or the user is not JSON.
AbsentOrMalformed(st) ==
    \/ st.token = None
    \/ st.user = None
    \/ JSONparseThrows(The(st.user))

\* C7: after construction the store exists, and if the persisted token or the
\* persisted user was absent or malformed, user and token are absent and
\* isAuthenticated is false.
C7_FailClosed ==
    last.op = "construct" =>
        /\ pc = "ready"
        /\ AbsentOrMalformed(storage) => (user = None /\ token = None /\ ~isAuthenticated)

\* C8: starting from an empty localStorage, the persisted token is present
\* exactly when the persisted user is.
C8_KeysTogether == Present(storage.token) <=> Present(storage.user)

\* { ...current, ...response }: the fields the response carries, over those of
\* the current user.
Merged(cur, resp) ==
    IF cur = None THEN resp
    ELSE [id |-> resp.id,
          firstName |-> IF resp.firstName # None THEN resp.firstName ELSE The(cur).firstName]

C9_StepAsStated ==
    \A r \in inflight, u \in Users :
        UpdateProfileSuccess(r, u) =>
            /\ user' = Some(Merged(user, u))
            /\ storage'.user = Some(JSONstringify(The(user')))
            /\ UNCHANGED <<token, isAuthenticated>>
            /\ storage'.token = storage.token

C9_Step ==
    \A r \in inflight, u \in Users :
        UpdateProfileSuccess(r, u) =>
            /\ user' = Some(u)
            /\ storage'.user = Some(JSONstringify(u))
            /\ JSONparse(The(storage'.user)) = user'
            /\ UNCHANGED <<token, isAuthenticated>>
            /\ storage'.token = storage.token

IsUpdatePasswordStep ==
    \/ UpdatePasswordStart
    \/ \E r \in inflight : UpdatePasswordSuccess(r)
    \/ \E r \in inflight, m \in Messages : UpdatePasswordFailure(r, m)

\* C10 as stated: no step of updatePassword changes user, token,
\* isAuthenticated, error or localStorage.
C10_UpdatePasswordAsStated ==
    [][IsUpdatePasswordStep => UNCHANGED <<user, token, isAuthenticated, error, storage>>]_vars

C10_Step ==
    /\ IsUpdatePasswordStep => UNCHANGED <<user, token, isAuthenticated, storage>>
    /\ UpdatePasswordStart => (loading' /\ error' = None)
    /\ \A r \in inflight :
        UpdatePasswordSuccess(r) => (error' = error /\ loading' = FALSE)
    /\ \A r \in inflight, m \in Messages :
        UpdatePasswordFailure(r, m) => (NonEmpty(error') /\ loading' = FALSE)

\* C10 (amended): updatePassword changes only loading and error: it clears
\* error when it starts, leaves error as it is when it succeeds and records a
\* non-empty message when it fails; user, token, isAuthenticated and
\* localStorage are left as they are by each of its steps.
C10_UpdatePassword == [][C10_Step]_vars

C10_Witness == Did("updatePassword", "resolved") /\ isAuthenticated /\ ~loading

-----------------------------------------------------------------------------
\* Claims about the Note Store.

Ids(seq) == {seq[k].id : k \in 1..Len(seq)}

\* C3: no note id is in notes and in deletedNotes at the same time.
C3_Disjoint == Ids(notes) \cap Ids(deletedNotes) = {}

-----------------------------------------------------------------------------
\* Claims about both stores and the gateway.

\* C11: in both stores clearError sets error to null and changes nothing else
\* (user, token, isAuthenticated, loading, the calls in flight, notes,
\* deletedNotes, currentNote and localStorage stay as they are), and a second
\* clearError right after one changes no field of the store at all.
C11_Step ==
    /\ ClearError =>
          /\ error' = None
          /\ UNCHANGED <<user, token, isAuthenticated, loading, storage, inflight>>
          /\ UNCHANGED <<notes, deletedNotes, currentNote, noteLoading, noteError, noteInflight>>
          /\ Did("clearError", "done") => UNCHANGED error
    /\ NoteClearError =>
          /\ noteError' = None
          /\ UNCHANGED <<notes, deletedNotes, currentNote, noteLoading, noteInflight>>
          /\ UNCHANGED <<user, token, isAuthenticated, loading, error, storage, inflight>>
          /\ noteLast = Step("clearError", "done") => UNCHANGED noteError

C11_ClearError == [][C11_Step]_vars

\* clearError has just run in both stores, each with a call in flight.
C11_Witness ==
    /\ Did("clearError", "done") /\ error = None /\ loading /\ inflight # {}
    /\ noteLast = Step("clearError", "done") /\ noteError = None /\ noteLoading
    /\ noteInflight # EmptyBag

-----------------------------------------------------------------------------
\* Claims about the steps of the Note Store.

NoteDid(op, phase) == noteLast = Step(op, phase)

\* C12: a createNote that resolves puts the note of the server's answer at
\* the head of notes: notes is longer by exactly one, the entries it had
\* follow in their order, and the same note is returned to the caller.
C12_Step ==
    \A r \in Pending :
        CreateNoteSuccess(r) =>
            /\ Len(notes') = Len(notes) + 1
            /\ notes'[1] = r.resp[1]
            /\ SubSeq(notes', 2, Len(notes')) = notes
            /\ returned' = Some(r.resp[1])

C12_CreateNote == [][C12_Step]_vars

\* createNote has just resolved on a list that already had an entry.
C12_Witness ==
    /\ NoteDid("createNote", "resolved")
    /\ Len(notes) >= 2
    /\ returned = Some(notes[1])
    /\ srv[notes[1].id].status = "active"

\* C13: an updateNote(id, data) that resolves replaces, in place, the entries
\* of notes whose id is id by the note of the server's answer: notes keeps its
\* length and order, every other entry is unchanged, and notes is unchanged
\* when no entry has that id.
C13_Step ==
    \A r \in Pending :
        UpdateNoteSuccess(r) =>
            /\ Len(notes') = Len(notes)
            /\ \A k \in DOMAIN notes :
                  notes'[k] = IF notes[k].id = r.id THEN r.resp[1] ELSE notes[k]
            /\ (\A k \in DOMAIN notes : notes[k].id # r.id) => UNCHANGED notes

C13_UpdateNote == [][C13_Step]_vars

\* updateNote has just replaced the second of two entries.
C13_Witness ==
    /\ NoteDid("updateNote", "resolved")
    /\ Len(notes) = 2
    /\ notes[1].id # notes[2].id
    /\ currentNote = Some(notes[2])
    /\ notes[1].content # notes[2].content

\* C14: an updateNote(id, data) that resolves puts the updated note in
\* currentNote when currentNote holds a note with that id, and leaves
\* currentNote as it is when it is empty or holds a note with another id.
C14_Step ==
    \A r \in Pending :
        UpdateNoteSuccess(r) =>
            IF currentNote # None /\ The(currentNote).id = r.id
            THEN currentNote' = Some(r.resp[1])
            ELSE UNCHANGED currentNote

C14_CurrentNoteIfMatches == [][C14_Step]_vars

\* The positions of seq that hold a note with this id.
Matching(seq, id) == {k \in DOMAIN seq : seq[k].id = id}

\* after is before with the entries of this id taken out and the others kept
\* in their order.
TakenOut(after, before, id) ==
    /\ Len(after) = Len(before) - Cardinality(Matching(before, id))
    /\ Matching(after, id) = {}
    /\ \A k \in DOMAIN before \ Matching(before, id) :
          after[k - Cardinality({j \in Matching(before, id) : j < k})] = before[k]

\* C15 as stated: a deleteNote(id) that resolves removes exactly one entry of
\* notes, the one with that id: notes is shorter by exactly one and the other
\* entries stay in their order.
C15_StepAsStated ==
    \A r \in Pending :
        DeleteNoteSuccess(r) =>
            /\ Len(notes') = Len(notes) - 1
            /\ TakenOut(notes', notes, r.id)

C15_DeleteRemovesOne == [][C15_StepAsStated]_vars

\* C15: a deleteNote(id) that resolves removes from notes every entry with
\* that id (none when notes does not hold the note): notes is shorter by the
\* number of such entries and the other entries stay in their order.
C15_Step ==
    \A r \in Pending :
        DeleteNoteSuccess(r) =>
            /\ TakenOut(notes', notes, r.id)
            /\ Matching(notes, r.id) = {} => UNCHANGED notes

C15_DeleteRemovesMatching == [][C15_Step]_vars

\* deleteNote has just resolved: the backend holds a note in its trash and
\* notes holds one entry, a note that is still active.
C15_Witness ==
    /\ NoteDid("deleteNote", "resolved")
    /\ Len(notes) = 1
    /\ srv[notes[1].id].status = "active"
    /\ \E i \in NoteIds : srv[i].status = "trash"

\* C16: a restoreNote(id) that resolves, in one step, takes the note with that
\* id out of deletedNotes and puts the restored note at the head of notes; the
\* other entries of both lists and currentNote are unchanged.
C16_Step ==
    \A r \in Pending :
        RestoreNoteSuccess(r) =>
            /\ TakenOut(deletedNotes', deletedNotes, r.id)
            /\ notes' = <<r.resp[1]>> \o notes
            /\ r.resp[1].id = r.id
            /\ UNCHANGED currentNote

C16_RestoreNote == [][C16_Step]_vars

\* restoreNote has just resolved: the restored note heads notes, deletedNotes
\* is empty and currentNote holds a note.
C16_Witness ==
    /\ NoteDid("restoreNote", "resolved")
    /\ deletedNotes = <<>>
    /\ Len(notes) >= 1
    /\ srv[notes[1].id].status = "active"
    /\ currentNote # None

\* C17: fetchNotes, fetchDeletedNotes and fetchNoteById, when they resolve,
\* each put the server's answer in their own slot (notes, deletedNotes,
\* currentNote), whatever the slot held, and leave the other two slots as
\* they are.
C17_Step ==
    \A r \in Pending :
        /\ FetchNotesSuccess(r) =>
              notes' = r.resp /\ UNCHANGED <<deletedNotes, currentNote>>
        /\ FetchDeletedNotesSuccess(r) =>
              deletedNotes' = r.resp /\ UNCHANGED <<notes, currentNote>>
        /\ FetchNoteByIdSuccess(r) =>
              currentNote' = Some(r.resp[1]) /\ UNCHANGED <<notes, deletedNotes>>

C17_FetchReplaces == [][C17_Step]_vars

\* fetchNotes has just resolved with a listing of one note, the backend
\* holding two, while currentNote holds a note.
C17_Witness ==
    /\ NoteDid("fetchNotes", "resolved")
    /\ Len(notes) = 1
    /\ Cardinality({i \in NoteIds : srv[i].status # "none"}) = 2
    /\ currentNote # None

\* C18: when a request of any Note Store operation fails, error holds a
\* non-empty message, loading is false, the call rejects, and notes,
\* deletedNotes and currentNote are unchanged.
C18_Step ==
    \A r \in Pending, m \in Messages :
        ( \/ FetchNotesFailure(r, m) \/ FetchDeletedNotesFailure(r, m)
          \/ FetchNoteByIdFailure(r, m) \/ CreateNoteFailure(r, m)
          \/ UpdateNoteFailure(r, m) \/ DeleteNoteFailure(r, m)
          \/ RestoreNoteFailure(r, m) ) =>
            /\ NonEmpty(noteError')
            /\ noteLoading' = FALSE
            /\ noteLast' = Step(r.op, "rejected")
            /\ returned' = None
            /\ UNCHANGED <<notes, deletedNotes, currentNote>>

C18_NoteFailure == [][C18_Step]_vars

\* deleteNote has just failed with a message of its own while another call is
\* in flight and notes holds an entry.
C18_Witness ==
    /\ NoteDid("deleteNote", "rejected")
    /\ noteError = Some("Bad request")
    /\ ~noteLoading
    /\ noteInflight # EmptyBag
    /\ notes # <<>>

-----------------------------------------------------------------------------
\* Claims about the gateway.

\* The requests this step dispatches, of either store.
Dispatched(r) ==
    \/ r \in inflight' \ inflight
    \/ /\ r \in BagToSet(noteInflight')
       /\ r.phase = "sent"
       /\ noteInflight' = Add(noteInflight, r)

\* The request carries a bearer header exactly when localStorage holds a
\* (non-empty) token as it is dispatched, and the header is that token.
HeaderIffStored(r) ==
    /\ r.bearer # None <=> NonEmpty(storage.token)
    /\ r.bearer # None => r.bearer = storage.token

\* C19 as stated: every request dispatched carries a bearer header if and
\* only if localStorage holds a token at that moment, the header being that
\* token, and a request dispatched after a logout and before the next login
\* that resolves carries no header.
C19_StepAsStated ==
    \A r \in inflight' \cup BagToSet(noteInflight') :
        Dispatched(r) =>
            /\ HeaderIffStored(r)
            /\ sinceLogout # "none" => r.bearer = None

C19_NoHeaderUntilLogin == [][C19_StepAsStated]_vars

\* C19: every request dispatched carries a bearer header if and only if
\* localStorage holds a token at that moment, the header being that token,
\* and a request dispatched after a logout and before the next login or
\* register that resolves carries no header.
C19_Step ==
    \A r \in inflight' \cup BagToSet(noteInflight') :
        Dispatched(r) =>
            /\ HeaderIffStored(r)
            /\ sinceLogout = "logout" => r.bearer = None

C19_BearerIffStored == [][C19_Step]_vars

\* A Note Store request has just been dispatched with the stored token as
\* its header, after a logout followed by a register that resolved.
C19_Witness ==
    /\ sinceLogout = "register"
    /\ noteLast.phase = "start"
    /\ \E r \in Pending : r.phase = "sent" /\ r.bearer # None /\ r.bearer = storage.token

\* The precedence as a chain in which each level is tried when the ones
\* before it have nothing to give: the message field of a structured body,
\* a body that is a plain string, the dump of a structured body, the
\* transport-level message, the status text, the generic fallback.
\* (An empty string counts as nothing to give.)
StatedMessage(err) ==
    LET data == DataOf(err) IN
    IF data.type = "object" /\ NonEmpty(data.message) THEN The(data.message)
    ELSE IF data.type = "string" /\ data.text # "" THEN data.text
    ELSE IF data.type = "object" THEN data.text
    ELSE IF err.message # "" THEN err.message
    ELSE IF StatusTextOf(err) # "" THEN StatusTextOf(err)
    ELSE DefaultMessage

\* C20: for every failed request, whatever the shape of the error body, the
\* transport message and the status text, the message of the error the
\* gateway throws is the first available of: the body's message field, the
\* body itself if it is a plain string, the dump of a structured body without
\* message, the transport-level message, the status text, and the generic
\* fallback 'Something went wrong'.
C20_MessagePrecedence == gwMsg # None => gwMsg = Some(StatedMessage(gwErr))

-----------------------------------------------------------------------------
\* Claims about overlapping operations.

\* The steps that are a call of clearError or of logout.
Clearing(step) == step \in {Step("clearError", "done"), Step("logout", "done")}

\* C21 as stated: a message recorded in error stays there until clearError
\* (or, in the Session Store, logout) is called or the outcome, success or
\* failure, of an operation replaces it.
C21_StepAsStated ==
    /\ (error # None /\ error' # error) =>
          Clearing(last') \/ last'.phase \in {"resolved", "rejected"}
    /\ (noteError # None /\ noteError' # noteError) =>
          noteLast' = Step("clearError", "done") \/ noteLast'.phase \in {"resolved", "rejected"}

C21_ErrorHeldUntilOutcome == [][C21_StepAsStated]_vars

\* C21: a message recorded in error stays there until clearError (or, in the
\* Session Store, logout) is called, an asynchronous operation of the store
\* starts (which resets error), or another operation of the store fails and
\* records its own message; an operation that succeeds leaves it in place.
C21_Step ==
    /\ (error # None /\ error' # error) =>
          Clearing(last') \/ last'.phase \in {"start", "rejected"}
    /\ (noteError # None /\ noteError' # noteError) =>
          noteLast' = Step("clearError", "done") \/ noteLast'.phase \in {"start", "rejected"}
    /\ last'.phase = "resolved" => UNCHANGED error
    /\ noteLast'.phase = "resolved" => UNCHANGED noteError

C21_ErrorHeld == [][C21_Step]_vars

\* A register has just succeeded while error holds the message of a login
\* that failed before it.
C21_Witness ==
    /\ Did("register", "resolved")
    /\ error = Some("Login failed")
    /\ isAuthenticated

\* C22: whenever a response of an operation that writes a Note Store slot is
\* applied, the slot takes the value of that response, whatever other
\* operations on the slot are in flight or were applied before and in
\* whatever order they were started: of two fetchNotes, or of two updateNote
\* of one id, the one whose response is applied last decides the value.
C22_Step ==
    \A r \in Pending :
        /\ FetchNotesSuccess(r) => notes' = r.resp
        /\ FetchDeletedNotesSuccess(r) => deletedNotes' = r.resp
        /\ FetchNoteByIdSuccess(r) => currentNote' = Some(r.resp[1])
        /\ UpdateNoteSuccess(r) =>
              /\ currentNote' = Some(r.resp[1])
              /\ \A k \in Matching(notes, r.id) : notes'[k] = r.resp[1]

C22_LastCompletionWins == [][C22_Step]_vars

\* The answer of an updateNote has just been applied while a second
\* updateNote is still in flight, and the backend already holds another
\* content for the note than the one now in currentNote.
C22_Witness ==
    /\ NoteDid("updateNote", "resolved")
    /\ currentNote # None
    /\ srv[The(currentNote).id].content # The(currentNote).content
    /\ \E q \in Pending : q.op = "updateNote" /\ q.id = The(currentNote).id /\ q.phase = "answered"

-----------------------------------------------------------------------------
\* Claims about the markdown utilities.

EndsWithEllipsis(s) == Len(s) >= 3 /\ From(s, Len(s) - 2) = Ellipsis

C24_NoActiveContent ==
    mdOutput # None =>
        /\ \A k \in DOMAIN The(mdOutput) :
              /\ The(mdOutput)[k].tag \notin {"script", "style", "form", "input", "button"}
              /\ The(mdOutput)[k].attr \notin
                    {Some(a) : a \in {"onerror", "onload", "onclick", "onmouseover"}}
        /\ mdInput = <<>> => The(mdOutput) = <<>>

\* A markdown with a form element and a bold text has been rendered: the
\* bold text is all that is left.
C24_Witness ==
    /\ mdOutput = Some(<<Element("strong", None)>>)
    /\ Len(mdInput) = 2
    /\ mdInput[1].html.tag = "form"

-----------------------------------------------------------------------------
\* Claims about the routes.

\* C25: the page of a protected route (/notes, /notes/:id, /trash, /profile)
\* is rendered only when isAuthenticated is true and loading is false; when
\* both are false the route renders a redirect to /login that carries the
\* location asked for.
C25_ProtectedRoutes ==
    pc = "ready" =>
        \A path \in ProtectedPaths :
            /\ Routes(path).view = Page(path) => (isAuthenticated /\ ~loading)
            /\ (~isAuthenticated /\ ~loading) =>
                  Routes(path) = View("Navigate", Some("/login"), Some(path))

\* A login has resolved, the store is authenticated and no call is pending:
\* /notes renders its page.
C25_Witness ==
    /\ Did("login", "resolved")
    /\ isAuthenticated /\ ~loading
    /\ Routes("/notes") = View("NotesPage", None, None)
    /\ Routes("/login") = View("LoginPage", None, None)

-----------------------------------------------------------------------------
\* Claims about concurrent calls of the Session Store.

\* C26: after logout has run the session stays anonymous (isAuthenticated
\* false, user and token absent, localStorage empty) until a login or a
\* register initiated after that logout resolves; a login, register or
\* updateProfile that was in flight when logout ran repopulates nothing.
C26_LogoutHolds ==
    sinceLogout = "logout" =>
        /\ ~isAuthenticated
        /\ user = None
        /\ token = None
        /\ storage = EmptyStorage

\* C27: wherever the store exists, the session in memory equals the persisted
\* one: token is the value under the key 'token' (absent when the key is) and
\* user is what getInitialState would read from the key 'user'; after
\* hydration and after login, register, logout and updateProfile completing
\* in any order.
C27_MemoryIsStorage ==
    pc = "ready" =>
        /\ token = storage.token
        /\ user = HydratedUser(storage)

\* A profile update has resolved on a session in place while another call is
\* still in flight.
C27_Witness ==
    /\ Did("updateProfile", "resolved")
    /\ user # None /\ token # None
    /\ inflight # {}
    /\ user = HydratedUser(storage)

-----------------------------------------------------------------------------
\* Claims about concurrent calls of the Note Store.

\* C28: the active collection never holds two entries with the same note id,
\* whatever the order in which fetchNotes, createNote, updateNote, deleteNote
\* and restoreNote are called and complete (the backend never lists an id
\* twice).
C28_NoDuplicateIds ==
    \A i, j \in 1..Len(notes) : notes[i].id = notes[j].id => i = j

-----------------------------------------------------------------------------
\* Claims about loading.

\* C29: in each store loading is true exactly when at least one asynchronous
\* operation of that store is in flight: true until the operation completes
\* even when an overlapping one completes first, false when none is in flight.
C29_LoadingIffInFlight ==
    /\ pc = "ready" => (loading <=> inflight # {})
    /\ noteLoading <=> noteInflight # EmptyBag

-----------------------------------------------------------------------------
\* Claims about termination.

\* A step that starts an operation dispatches exactly one request and no
\* other step dispatches any.
C30_Step ==
    /\ IF nextId' # nextId
       THEN /\ nextId' = nextId + 1
            /\ \E r \in inflight' \ inflight : inflight' = inflight \cup {r} /\ r.id = nextId
       ELSE inflight' \subseteq inflight
    /\ IF noteNextId' # noteNextId
       THEN /\ noteNextId' = noteNextId + 1
            /\ BagCardinality(noteInflight') = BagCardinality(noteInflight) + 1
       ELSE BagCardinality(noteInflight') <= BagCardinality(noteInflight)

\* C30: provided every dispatched request eventually receives a response or
\* a transport failure, every initiated operation issues exactly one request,
\* with no retry, and eventually settles, and each store eventually has
\* nothing in flight and loading = false.
C30_EverySettles ==
    /\ [][C30_Step]_vars
    /\ (inflight # {}) ~> (inflight = {} /\ ~loading)
    /\ (noteInflight # EmptyBag) ~> (noteInflight = EmptyBag /\ ~noteLoading)

\* Two operations have been started, one in each store, and both have
\* settled, one by its answer and one by a failure: nothing is in flight and
\* neither store is loading.
C30_Witness ==
    /\ nextId = 2 /\ noteNextId = 2
    /\ inflight = {} /\ noteInflight = EmptyBag
    /\ ~loading /\ ~noteLoading
    /\ last.phase = "resolved"
    /\ noteLast.phase = "rejected"

====
